---- MODULE Spec2Model ----
(***************************************************************************)
(* Model of oxyii/excel2csv.                                               *)
(*                                                                         *)
(* Part 1 (this section): the header-driven conversion Sheet.Convert of    *)
(* src/excel2csv.go.  A Sheet is opened over a grid of text cells; Convert *)
(* is called on it, and then called once more on the same Sheet object.    *)
(*                                                                         *)
(* Text is modelled as a sequence of one-character strings so that         *)
(* strings.Trim, strings.ToLower and strings.Contains are computed, not    *)
(* assumed.  Column and row indexes are 0-based as in the Go code; the     *)
(* TLA+ sequences that hold rows are 1-based, so row[index] of the code is *)
(* row[index + 1] here.                                                    *)
(*                                                                         *)
(* A Go slice is (backing array, length).  Every slice the code derives    *)
(* from the caller's requiredHeaders starts at element 0 of the same       *)
(* backing array (append(slice[:i], slice[i+1:]...) never reallocates), so *)
(* a slice is the record [arr |-> backing array, len |-> its length].      *)
(* The caller's slice and s.requiredHeaders both see the whole array.      *)
(*                                                                         *)
(* The iteration order of a Go map is unspecified: every `range` over      *)
(* possibleHeaders picks its order nondeterministically.                   *)
(*                                                                         *)
(* Part 2: ExcelConverter of src/converter.go.  SpecTable applies          *)
(* processTableData (forced bounds, detectTableBoundariesImproved) to a    *)
(* grid of CSV records, SpecClean applies cleanCellData to a cell, and     *)
(* SpecFile follows ConvertFile through LibreOffice and copyCSVFile.       *)
(*                                                                         *)
(* Part 3: Open of src/excel2csv.go over the reader variants (SpecOpen).   *)
(*                                                                         *)
(* Each part has its own variables and its own specification; the actions  *)
(* of one part leave the variables of the other parts unchanged, and the   *)
(* initial predicate of a specification holds the other parts idle.        *)
(***************************************************************************)
EXTENDS Integers, Sequences, FiniteSets, TLC

\* ------------------------------------------------------------------ bounds

\* Largest number of rows of a sheet.
MaxRows == 2

\* ------------------------------------------------------------------- text

\* unicode.ToLower on the characters that occur in the inputs.
LowerChar(c) ==
    CASE c = "A" -> "a"
      [] c = "P" -> "p"
      [] c = "X" -> "x"
      [] OTHER -> c

\* strings.ToLower
ToLower(s) == [j \in 1..Len(s) |-> LowerChar(s[j])]

RECURSIVE TrimLeft(_)
TrimLeft(s) == IF s # <<>> /\ Head(s) = " " THEN TrimLeft(Tail(s)) ELSE s

RECURSIVE TrimRight(_)
TrimRight(s) ==
    IF s # <<>> /\ s[Len(s)] = " " THEN TrimRight(SubSeq(s, 1, Len(s) - 1)) ELSE s

\* strings.Trim(s, " ")
Trim(s) == TrimRight(TrimLeft(s))

\* strings.Contains(s, substr): unanchored substring test.
Contains(s, substr) ==
    \E j \in 0..(Len(s) - Len(substr)) : SubSeq(s, j + 1, j + Len(substr)) = substr

\* ----------------------------------------------------------------- inputs

\* Cells of a sheet.
CellBlank == <<" ">>
CellBrand == <<"x", "A">>
CellPrice == <<"p", " ">>
CellBoth  == <<"A", "p">>
CellOther == <<"x">>

\* Rows a sheet is made of: ragged, with blank, matching and other cells.
RowPool ==
    { <<>>,
      <<CellBlank>>,
      <<CellBrand>>,
      <<CellBoth>>,
      <<CellBrand, CellPrice>>,
      <<CellPrice, CellBrand>>,
      <<CellBrand, CellBlank>>,
      <<CellBlank, CellPrice>>,
      <<CellOther, CellBrand, CellPrice>> }

Grids == UNION { [1..n -> RowPool] : n \in 0..MaxRows }

\* A sheet whose header row comes after two rows that do not qualify: three
\* non-blank header cells, the first and the last one matching an alias.
ScenarioOneGrid ==
    << <<CellOther>>,
       <<CellBrand, CellBlank>>,
       <<CellBrand, CellOther, CellPrice>> >>

\* possibleHeaders maps: alias -> canonical field.
AliasBrand == <<"a">>
AliasPrice == <<"P">>
PossibleBoth  == (AliasBrand :> "brand") @@ (AliasPrice :> "price")
PossibleBrand == (AliasBrand :> "brand")
PossiblePool  == {PossibleBoth, PossibleBrand}

\* requiredHeaders lists, as the caller writes them.
RequiredPool ==
    { <<>>,
      <<"brand">>,
      <<"price">>,
      <<"brand", "price">>,
      <<"price", "brand">>,
      <<"price", "price">> }

\* The orders in which a `range` over a map with key set S may visit it.
Orders(S) ==
    { o \in [1..Cardinality(S) -> S] : \A x \in S : \E j \in 1..Cardinality(S) : o[j] = x }

\* ------------------------------------------------------------------ state

VARIABLES
    grid,             \* the sheet's rows, as Excel.GetRow returns them
    RowsCount,        \* Sheet.RowsCount
    pc,               \* position of the caller / of Convert
    call,             \* number of Convert calls started on the Sheet
    argRequired,      \* requiredHeaders as the caller wrote it for this call
    possibleHeaders,  \* s.possibleHeaders (the caller's map)
    requiredHeaders,  \* backing array shared by the caller's slice and s.requiredHeaders
    headersRow,       \* s.headersRow
    headers,          \* s.headers
    matterIndexes,    \* s.matterIndexes
    requiredIndexes,  \* s.requiredIndexes
    i,                \* row loop variable of detectFileHeaders / Convert
    out,              \* records written to dst by this call
    outRows,          \* for each record of out, the index of the row it was made from
    result,           \* what this call returned: "none" while running
    getRowCalls,      \* Excel.GetRow calls made by this call
    headerFound,      \* detectFileHeaders returned nil in this call
    first             \* outcome of the first call, kept for the second

sheetVars == << grid, RowsCount, pc, call, argRequired, possibleHeaders,
               requiredHeaders, headersRow, headers, matterIndexes, requiredIndexes,
               i, out, outRows, result, getRowCalls, headerFound, first >>

\* A Go pointer *int: nil, or a pointer to a value.
Nil == <<>>
Ptr(v) == <<v>>

VARIABLES
    records,          \* the CSV records handed to processTableData
    ec,               \* the ExcelConverter's ForceDataStartRow and ForceDataEndRow
    processed,        \* what processTableData returned
    detected,         \* what detectTableBoundariesImproved returned, Nil if not called
    tpc               \* "call" before processTableData, "done" after

tableVars == << records, ec, processed, detected, tpc >>

\* No processTableData call is modelled.
TableIdle ==
    /\ records = <<>>
    /\ ec = [ForceDataStartRow |-> Nil, ForceDataEndRow |-> Nil]
    /\ processed = <<>>
    /\ detected = Nil
    /\ tpc = "idle"

VARIABLES
    text,             \* the cell text handed to cleanCellData
    CleanLineBreaks,  \* the ExcelConverter's CleanLineBreaks
    work,             \* the local text of cleanCellData
    cleaned,          \* what cleanCellData returned
    iters,            \* iterations of the space-collapsing loop so far
    cpc               \* "call", "loop" inside the loop, "done" after the return

cleanVars == << text, CleanLineBreaks, work, cleaned, iters, cpc >>

\* No cleanCellData call is modelled.
CleanIdle ==
    /\ text = <<>>
    /\ CleanLineBreaks = FALSE
    /\ work = <<>>
    /\ cleaned = <<>>
    /\ iters = 0
    /\ cpc = "idle"

VARIABLES
    file,             \* per reader variant: Nil if it rejects the file, else
                      \* a pointer to the workbook it reads
    typeIndex,        \* position of Open's loop over SupportedTypes
    excel,            \* Open's excel: Nil, or the accepting variant and its
                      \* current sheet
    sheetNames,       \* Open's sheetNames
    sheetLoop,        \* position of Open's loop over sheetNames
    sheets,           \* Open's sheets
    openResult,       \* "none", "ok", "errEmptyBook", "errNotSupported"
    opc               \* "types", "getSheets", "sheets", "done"

openVars == << file, typeIndex, excel, sheetNames, sheetLoop, sheets,
              openResult, opc >>

\* No Open call is modelled.
OpenIdle ==
    /\ file = <<>>
    /\ typeIndex = 0
    /\ excel = Nil
    /\ sheetNames = <<>>
    /\ sheetLoop = 0
    /\ sheets = <<>>
    /\ openResult = "none"
    /\ opc = "idle"

VARIABLES
    inputExt,         \* the lower-cased extension of inputPath
    book,             \* the sheets of the input workbook, each a name and the
                      \* records LibreOffice exports for it
    selection,        \* the ExcelConverter's SheetName, SheetIndex and
                      \* CleanLineBreaks
    tempCSV,          \* the CSV LibreOffice wrote to the temp directory
    outputCSV,        \* the CSV at outputPath
    fpc               \* "call", "libreoffice", "converted", "done", "error"

fileVars == << inputExt, book, selection, tempCSV, outputCSV, fpc >>

\* No ConvertFile call is modelled.
FileIdle ==
    /\ inputExt = ""
    /\ book = <<>>
    /\ selection = [SheetName |-> "", SheetIndex |-> Nil, CleanLineBreaks |-> FALSE]
    /\ tempCSV = Nil
    /\ outputCSV = Nil
    /\ fpc = "idle"

VARIABLES
    fs                \* the file system: for every directory that exists, the
                      \* content of each of its files by name

fsVars == << fs >>

\* No file system is modelled.
FsIdle == fs = <<>>

VARIABLES
    conversions,      \* number of ConvertFile calls started so far
    job,              \* the current call: the input file and ec.TempDir
    tempDir,          \* convertViaLibreOffice's tempDir
    tempCSVPath,      \* convertViaLibreOffice's tempCSVPath, Nil if not found
    copied,           \* what the call wrote to outputPath, Nil if nothing
    fsBefore,         \* the file system when the call was made
    convResult,       \* "none", "nil", "error"
    kpc               \* "idle", "libreoffice", "find", "cleanup", "returned"

tempVars == << conversions, job, tempDir, tempCSVPath, copied, fsBefore,
              convResult, kpc >>

\* No sequence of ConvertFile calls is modelled.
TempIdle ==
    /\ conversions = 0
    /\ job = <<>>
    /\ tempDir = <<>>
    /\ tempCSVPath = Nil
    /\ copied = Nil
    /\ fsBefore = <<>>
    /\ convResult = "none"
    /\ kpc = "none"

VARIABLES
    uploads,          \* per request: the name of the uploaded file
    hpc,              \* per request: the position of its convertHandler
    found,            \* per request: the tempCSVPath of its ConvertFile
    responses         \* per request: Nil, or the body of the response

httpVars == << uploads, hpc, found, responses >>

\* No HTTP request is modelled.
HttpIdle ==
    /\ uploads = <<>>
    /\ hpc = <<>>
    /\ found = <<>>
    /\ responses = <<>>

\* The variables of the parts other than the one named.
notSheetVars == << tableVars, cleanVars, openVars, fileVars,
                 fsVars, tempVars, httpVars >>
notTableVars == << sheetVars, cleanVars, openVars, fileVars,
                 fsVars, tempVars, httpVars >>
notCleanVars == << sheetVars, tableVars, openVars, fileVars,
                 fsVars, tempVars, httpVars >>
notOpenVars  == << sheetVars, tableVars, cleanVars, fileVars,
                 fsVars, tempVars, httpVars >>
notFileVars  == << sheetVars, tableVars, cleanVars, openVars,
                 fsVars, tempVars, httpVars >>

notTempVars  == << sheetVars, tableVars, cleanVars, openVars, fileVars,
                 httpVars >>
notHttpVars  == << sheetVars, tableVars, cleanVars, openVars, fileVars,
                 tempVars >>

vars == << sheetVars, tableVars, cleanVars, openVars, fileVars, fsVars,
          tempVars, httpVars >>

\* ------------------------------------------------- Sheet: pure functions

\* A remove that keeps slice[:idx] only and drops the elements after idx.
removeTail(slice, idx) ==
    [ arr |-> slice.arr, len |-> idx ]

\* append(slice[:idx], slice[idx+1:]...): shifts the elements after idx one
\* place to the left inside the backing array and returns a slice one shorter;
\* the array element at the old last position keeps its value.
remove(slice, idx) ==
    [ arr |-> [ j \in 1..Len(slice.arr) |->
                  IF j >= idx + 1 /\ j <= slice.len - 1
                  THEN slice.arr[j + 1]
                  ELSE slice.arr[j] ],
      len |-> slice.len - 1 ]

\* Index of the first element of the slice equal to v, or -1: the inner
\* `for i, requiredHeader := range requiredHeaders` with its `==` test.
IndexOf(slice, v) ==
    LET hits == { j \in 0..(slice.len - 1) : slice.arr[j + 1] = v }
    IN  IF hits = {} THEN -1
        ELSE CHOOSE j \in hits : \A h \in hits : j <= h

\* One iteration of the outer loop of parseIncomingHeadersInfo.
parseEntry(slice, resolveAs) ==
    LET idx == IndexOf(slice, resolveAs)
    IN  IF idx >= 0 THEN remove(slice, idx) ELSE slice

RECURSIVE parseLoop(_, _, _)
parseLoop(slice, possible, order) ==
    IF order = <<>> THEN slice
    ELSE parseLoop(parseEntry(slice, possible[Head(order)]), possible, Tail(order))

\* parseIncomingHeadersInfo with the map visited in `order`: the backing
\* array as it leaves it, and the error it returns.
parseIncomingHeadersInfo(possible, required, order) ==
    LET left == parseLoop([arr |-> required, len |-> Len(required)], possible, order)
    IN  [ arr |-> left.arr,
          err |-> IF left.len > 0 THEN "errRequiredHeaders" ELSE "nil" ]

\* The body of the map loop of mayBeHeaders for one alias and cell k.
\* st = [slice |-> local requiredHeaders, requiredIndexes |-> s.requiredIndexes]
matchAlias(st, cell, k, possibleHeader, possible) ==
    IF Contains(ToLower(Trim(cell)), ToLower(possibleHeader))
    THEN LET idx == IndexOf(st.slice, possible[possibleHeader])
         IN  IF idx >= 0
             THEN [ slice |-> remove(st.slice, idx),
                    requiredIndexes |-> Append(st.requiredIndexes, k) ]
             ELSE st
    ELSE st

RECURSIVE cellLoop(_, _, _, _, _)
cellLoop(st, cell, k, order, possible) ==
    IF order = <<>> THEN st
    ELSE cellLoop(matchAlias(st, cell, k, Head(order), possible),
                  cell, k, Tail(order), possible)

RECURSIVE rowLoop(_, _, _, _, _)
rowLoop(st, row, k, orderOf, possible) ==
    IF k >= Len(row) THEN st
    ELSE rowLoop(cellLoop(st, row[k + 1], k, orderOf[k + 1], possible),
                 row, k + 1, orderOf, possible)

\* mayBeHeaders(row) with the map visited in orderOf[k+1] at cell k.
\* sRequired is the array s.requiredHeaders sees, sIndexes is s.requiredIndexes.
mayBeHeaders(row, sRequired, sIndexes, orderOf, possible) ==
    LET st == rowLoop([ slice |-> [arr |-> sRequired, len |-> Len(sRequired)],
                        requiredIndexes |-> sIndexes ],
                      row, 0, orderOf, possible)
    IN  [ ok |-> st.slice.len = 0,
          arr |-> st.slice.arr,
          requiredIndexes |-> st.requiredIndexes ]

\* Columns of the row whose trimmed cell is not blank, ascending
\* (detectFileHeaders, the loop that appends to s.matterIndexes).
\* The columns from j on whose cell is not the empty string, untrimmed.
RECURSIVE NonEmptyFrom(_, _)
NonEmptyFrom(row, j) ==
    IF j >= Len(row) THEN <<>>
    ELSE (IF row[j + 1] # <<>> THEN <<j>> ELSE <<>>) \o NonEmptyFrom(row, j + 1)

RECURSIVE NonBlankFrom(_, _)
NonBlankFrom(row, j) ==
    IF j >= Len(row) THEN <<>>
    ELSE (IF Trim(row[j + 1]) # <<>> THEN <<j>> ELSE <<>>) \o NonBlankFrom(row, j + 1)

\* checkRequiredCells: "true", "false", or "panic" when row[index] is out
\* of range before a blank required cell was met.
checkRequiredCells(row, sIndexes) ==
    LET stops == { j \in 1..Len(sIndexes) :
                     \/ sIndexes[j] >= Len(row)
                     \/ Trim(row[sIndexes[j] + 1]) = <<>> }
    IN  IF stops = {} THEN "true"
        ELSE LET j == CHOOSE x \in stops : \A y \in stops : x <= y
             IN  IF sIndexes[j] >= Len(row) THEN "panic" ELSE "false"

\* getMatterCells: status "nil" (a nil slice), "cells", or "panic" when
\* row[index] is out of range.  With no matter index the result is the nil
\* slice the function started from.
getMatterCells(row, sMatter, sIndexes) ==
    LET chk == checkRequiredCells(row, sIndexes)
    IN  IF chk = "panic" THEN [status |-> "panic", cells |-> <<>>]
        ELSE IF chk = "false" THEN [status |-> "nil", cells |-> <<>>]
        ELSE IF \E j \in 1..Len(sMatter) : sMatter[j] >= Len(row)
             THEN [status |-> "panic", cells |-> <<>>]
        ELSE IF sMatter = <<>> THEN [status |-> "nil", cells |-> <<>>]
        ELSE [ status |-> "cells",
               cells |-> [ j \in 1..Len(sMatter) |-> row[sMatter[j] + 1] ] ]

\* ------------------------------------------- Convert under one map order

\* detectFileHeaders from row r on, every `range` over the map in `order`.
RECURSIVE detectInOrder(_, _, _, _, _, _)
detectInOrder(g, r, sRequired, sIndexes, order, possible) ==
    IF r >= Len(g)
    THEN [ found |-> FALSE, headersRow |-> 0, headers |-> <<>>,
           requiredIndexes |-> sIndexes ]
    ELSE LET row == g[r + 1]
             m == mayBeHeaders(row, sRequired, sIndexes,
                               [k \in 1..Len(row) |-> order], possible)
         IN  IF m.ok
             THEN [ found |-> TRUE, headersRow |-> r, headers |-> row,
                    requiredIndexes |-> m.requiredIndexes ]
             ELSE detectInOrder(g, r + 1, m.arr, m.requiredIndexes, order, possible)

\* Convert's data loop from row r on.
RECURSIVE dataLoop(_, _, _, _, _)
dataLoop(g, r, sMatter, sIndexes, written) ==
    IF r >= Len(g) THEN [result |-> "nil", out |-> written]
    ELSE LET checkedRow == getMatterCells(g[r + 1], sMatter, sIndexes)
         IN  IF checkedRow.status = "panic"
             THEN [result |-> "panic", out |-> written]
             ELSE IF checkedRow.status = "nil"
             THEN dataLoop(g, r + 1, sMatter, sIndexes, written)
             ELSE dataLoop(g, r + 1, sMatter, sIndexes, Append(written, checkedRow.cells))

\* Convert on a freshly opened Sheet over g, every `range` over the map
\* visiting it in `order`: what it returns, the Sheet fields it leaves and
\* the records it writes.
ConvertInOrder(g, possible, required, order) ==
    LET p == parseIncomingHeadersInfo(possible, required, order)
    IN  IF p.err # "nil"
        THEN [ result |-> p.err, headersRow |-> 0, matterIndexes |-> <<>>,
               requiredIndexes |-> <<>>, out |-> <<>> ]
        ELSE
        LET d == detectInOrder(g, 0, p.arr, <<>>, order, possible)
        IN  IF ~d.found
            THEN [ result |-> "errMissedHeaders", headersRow |-> 0,
                   matterIndexes |-> <<>>, requiredIndexes |-> d.requiredIndexes,
                   out |-> <<>> ]
            ELSE
            LET matter == NonBlankFrom(d.headers, 0)
                row2flash == getMatterCells(d.headers, matter, d.requiredIndexes)
                w == IF row2flash.status = "panic"
                     THEN [result |-> "panic", out |-> <<>>]
                     ELSE IF row2flash.status = "nil"
                     THEN [result |-> "errMissedHeaders", out |-> <<>>]
                     ELSE dataLoop(g, d.headersRow + 1, matter, d.requiredIndexes,
                                   <<row2flash.cells>>)
            IN  [ result |-> w.result, headersRow |-> d.headersRow,
                  matterIndexes |-> matter, requiredIndexes |-> d.requiredIndexes,
                  out |-> w.out ]

\* ---------------------------------------------------------------- actions

NoFirst == [ possibleHeaders |-> <<>>, argRequired |-> <<>>,
             result |-> "none", out |-> <<>> ]

\* No Sheet is open.
SheetIdle ==
    /\ grid = <<>>
    /\ RowsCount = 0
    /\ pc = "none"
    /\ call = 0
    /\ argRequired = <<>>
    /\ possibleHeaders = <<>>
    /\ requiredHeaders = <<>>
    /\ headersRow = 0
    /\ headers = <<>>
    /\ matterIndexes = <<>>
    /\ requiredIndexes = <<>>
    /\ i = 0
    /\ out = <<>>
    /\ outRows = <<>>
    /\ result = "none"
    /\ getRowCalls = 0
    /\ headerFound = FALSE
    /\ first = NoFirst

\* Open: one Sheet over the grid, its derived fields zero.
Init ==
    /\ grid \in Grids \cup {ScenarioOneGrid}
    /\ RowsCount = Len(grid)
    /\ pc = "idle"
    /\ call = 0
    /\ argRequired = <<>>
    /\ possibleHeaders = <<>>
    /\ requiredHeaders = <<>>
    /\ headersRow = 0
    /\ headers = <<>>
    /\ matterIndexes = <<>>
    /\ requiredIndexes = <<>>
    /\ i = 0
    /\ out = <<>>
    /\ outRows = <<>>
    /\ result = "none"
    /\ getRowCalls = 0
    /\ headerFound = FALSE
    /\ first = NoFirst
    /\ TableIdle
    /\ CleanIdle
    /\ OpenIdle
    /\ FileIdle
    /\ FsIdle
    /\ TempIdle
    /\ HttpIdle

\* The caller calls s.Convert(dst, possible, required) with a fresh dst and a
\* freshly written required slice: on a new Sheet, and once more after the
\* first call returned.
ConvertCall ==
    /\ \/ pc = "idle"
       \/ pc = "done" /\ first = NoFirst
    /\ \E possible \in PossiblePool, required \in RequiredPool :
          /\ possibleHeaders' = possible
          /\ argRequired' = required
          /\ requiredHeaders' = required
    /\ first' = IF pc = "done"
                THEN [ possibleHeaders |-> possibleHeaders, argRequired |-> argRequired,
                       result |-> result, out |-> out ]
                ELSE first
    /\ call' = call + 1
    /\ pc' = "parse"
    /\ out' = <<>>
    /\ outRows' = <<>>
    /\ result' = "none"
    /\ getRowCalls' = 0
    /\ headerFound' = FALSE
    /\ UNCHANGED << grid, RowsCount, headersRow, headers, matterIndexes,
                    requiredIndexes, i >>
    /\ UNCHANGED notSheetVars

\* Convert, `if err := s.parseIncomingHeadersInfo(...)`.
ParseIncomingHeadersInfo ==
    /\ pc = "parse"
    /\ \E order \in Orders(DOMAIN possibleHeaders) :
          LET p == parseIncomingHeadersInfo(possibleHeaders, requiredHeaders, order)
          IN  /\ requiredHeaders' = p.arr
              /\ IF p.err = "nil"
                 THEN /\ pc' = "detect"
                      /\ i' = 0
                      /\ result' = result
                 ELSE /\ pc' = "done"
                      /\ i' = i
                      /\ result' = p.err
    /\ UNCHANGED << grid, RowsCount, call, argRequired, possibleHeaders, headersRow,
                    headers, matterIndexes, requiredIndexes, out, outRows,
                    getRowCalls, headerFound, first >>
    /\ UNCHANGED notSheetVars

\* detectFileHeaders: one iteration of its row loop, or its final return.
DetectFileHeaders ==
    /\ pc = "detect"
    /\ IF i < RowsCount
       THEN LET row == grid[i + 1]
            IN  \E orderOf \in [1..Len(row) -> Orders(DOMAIN possibleHeaders)] :
                  LET m == mayBeHeaders(row, requiredHeaders, requiredIndexes,
                                        orderOf, possibleHeaders)
                  IN  /\ getRowCalls' = getRowCalls + 1
                      /\ requiredHeaders' = m.arr
                      /\ requiredIndexes' = m.requiredIndexes
                      /\ IF m.ok
                         THEN /\ headersRow' = i
                              /\ headers' = row
                              /\ matterIndexes' = matterIndexes \o NonBlankFrom(row, 0)
                              /\ headerFound' = TRUE
                              /\ pc' = "writer"
                              /\ i' = i
                         ELSE /\ i' = i + 1
                              /\ UNCHANGED << headersRow, headers, matterIndexes,
                                              headerFound, pc >>
                      /\ UNCHANGED result
       ELSE /\ result' = "errMissedHeaders"
            /\ pc' = "done"
            /\ UNCHANGED << requiredHeaders, requiredIndexes, headersRow, headers,
                            matterIndexes, headerFound, i, getRowCalls >>
    /\ UNCHANGED << grid, RowsCount, call, argRequired, possibleHeaders, out, outRows,
                    first >>
    /\ UNCHANGED notSheetVars

\* A createOutputWriter that hands row2flash to Write before it tests it for
\* nil: a nil row2flash is written as an empty record.
CreateOutputWriterWriteFirst ==
    /\ pc = "writer"
    /\ LET row2flash == getMatterCells(headers, matterIndexes, requiredIndexes)
       IN  CASE row2flash.status = "panic" ->
                  /\ result' = "panic"
                  /\ pc' = "done"
                  /\ UNCHANGED << out, outRows, i >>
             [] row2flash.status = "nil" ->
                  /\ out' = Append(out, <<>>)
                  /\ outRows' = Append(outRows, headersRow)
                  /\ result' = "errMissedHeaders"
                  /\ pc' = "done"
                  /\ UNCHANGED i
             [] OTHER ->
                  /\ out' = Append(out, row2flash.cells)
                  /\ outRows' = Append(outRows, headersRow)
                  /\ pc' = "data"
                  /\ i' = headersRow + 1
                  /\ UNCHANGED result
    /\ UNCHANGED << grid, RowsCount, call, argRequired, possibleHeaders,
                    requiredHeaders, headersRow, headers, matterIndexes,
                    requiredIndexes, getRowCalls, headerFound, first >>
    /\ UNCHANGED notSheetVars

\* createOutputWriter: the header record, or errMissedHeaders.
CreateOutputWriter ==
    /\ pc = "writer"
    /\ LET row2flash == getMatterCells(headers, matterIndexes, requiredIndexes)
       IN  CASE row2flash.status = "panic" ->
                  /\ result' = "panic"
                  /\ pc' = "done"
                  /\ UNCHANGED << out, outRows, i >>
             [] row2flash.status = "nil" ->
                  /\ result' = "errMissedHeaders"
                  /\ pc' = "done"
                  /\ UNCHANGED << out, outRows, i >>
             [] OTHER ->
                  /\ out' = Append(out, row2flash.cells)
                  /\ outRows' = Append(outRows, headersRow)
                  /\ pc' = "data"
                  /\ i' = headersRow + 1
                  /\ UNCHANGED result
    /\ UNCHANGED << grid, RowsCount, call, argRequired, possibleHeaders,
                    requiredHeaders, headersRow, headers, matterIndexes,
                    requiredIndexes, getRowCalls, headerFound, first >>
    /\ UNCHANGED notSheetVars

\* Convert's data loop: one iteration, or `return nil`.
WriteData ==
    /\ pc = "data"
    /\ IF i < RowsCount
       THEN LET checkedRow == getMatterCells(grid[i + 1], matterIndexes, requiredIndexes)
            IN  /\ getRowCalls' = getRowCalls + 1
                /\ CASE checkedRow.status = "panic" ->
                          /\ result' = "panic"
                          /\ pc' = "done"
                          /\ UNCHANGED << out, outRows, i >>
                     [] checkedRow.status = "nil" ->
                          /\ i' = i + 1
                          /\ UNCHANGED << out, outRows, result, pc >>
                     [] OTHER ->
                          /\ out' = Append(out, checkedRow.cells)
                          /\ outRows' = Append(outRows, i)
                          /\ i' = i + 1
                          /\ UNCHANGED << result, pc >>
       ELSE /\ result' = "nil"
            /\ pc' = "done"
            /\ UNCHANGED << out, outRows, i, getRowCalls >>
    /\ UNCHANGED << grid, RowsCount, call, argRequired, possibleHeaders,
                    requiredHeaders, headersRow, headers, matterIndexes,
                    requiredIndexes, headerFound, first >>
    /\ UNCHANGED notSheetVars

Next ==
    \/ ConvertCall
    \/ ParseIncomingHeadersInfo
    \/ DetectFileHeaders
    \/ CreateOutputWriter
    \/ WriteData

Spec == Init /\ [][Next]_vars

\* ------------------------------------------ ExcelConverter: text helpers

\* The white space strings.TrimSpace removes, among the characters of the inputs.
IsSpace(c) == c \in {" ", "\t", "\n", "\r"}

RECURSIVE TrimSpaceLeft(_)
TrimSpaceLeft(s) ==
    IF s # <<>> /\ IsSpace(Head(s)) THEN TrimSpaceLeft(Tail(s)) ELSE s

RECURSIVE TrimSpaceRight(_)
TrimSpaceRight(s) ==
    IF s # <<>> /\ IsSpace(s[Len(s)])
    THEN TrimSpaceRight(SubSeq(s, 1, Len(s) - 1))
    ELSE s

\* strings.TrimSpace
TrimSpace(s) == TrimSpaceRight(TrimSpaceLeft(s))

\* strings.ReplaceAll(s, old, new) for a non-empty old: the non-overlapping
\* occurrences of old, found from left to right, are replaced.
RECURSIVE ReplaceAll(_, _, _)
ReplaceAll(s, old, new) ==
    IF Len(s) < Len(old) THEN s
    ELSE IF SubSeq(s, 1, Len(old)) = old
         THEN new \o ReplaceAll(SubSeq(s, Len(old) + 1, Len(s)), old, new)
         ELSE <<Head(s)>> \o ReplaceAll(Tail(s), old, new)

IsDigit(c) == c \in {"0", "1", "2", "3", "4", "5", "6", "7", "8", "9"}

\* strconv.ParseFloat(value, 64) returns no error.  On the characters of the
\* inputs (digits, sign, point, letter x, comma, white space) the accepted
\* strings are an optional sign followed by digits with at most one point and
\* at least one digit; exponents, hexadecimal mantissas, "inf" and "nan" need
\* letters the inputs do not have.
IsFloat(value) ==
    LET body == IF value # <<>> /\ Head(value) \in {"+", "-"}
                THEN Tail(value) ELSE value
    IN  /\ \A j \in 1..Len(body) : IsDigit(body[j]) \/ body[j] = "."
        /\ Cardinality({ j \in 1..Len(body) : body[j] = "." }) <= 1
        /\ \E j \in 1..Len(body) : IsDigit(body[j])

\* looksLikeNumber
looksLikeNumber(value) ==
    IF value = <<>> THEN FALSE
    ELSE IsFloat(ReplaceAll(ReplaceAll(value, <<",">>, <<>>), <<" ">>, <<>>))

\* hasData
hasData(record) == \E j \in 1..Len(record) : TrimSpace(record[j]) # <<>>

\* countNonEmptyCells
countNonEmptyCells(record) ==
    Cardinality({ j \in 1..Len(record) : TrimSpace(record[j]) # <<>> })

\* countNumericCells
countNumericCells(record) ==
    Cardinality({ j \in 1..Len(record) : looksLikeNumber(TrimSpace(record[j])) })

\* ---------------------------------------- ExcelConverter: table boundaries

\* A header candidate has at least this many non-empty cells ...
MinHeaderCells == 5
\* ... and at most this many numeric cells.
MaxHeaderNumeric == 1
\* A non-empty row with fewer than expectedCols/FooterDivisor cells is a footer.
FooterDivisor == 3
\* A row with at least expectedCols/BodyDivisor cells belongs to the table.
BodyDivisor == 2

\* A header loop that keeps the last of the rows with the most non-empty cells.
RECURSIVE headerScanLast(_, _, _, _)
headerScanLast(recs, n, headerRow, maxNonEmpty) ==
    IF n >= Len(recs) THEN [headerRow |-> headerRow, maxNonEmpty |-> maxNonEmpty]
    ELSE LET nonEmpty == countNonEmptyCells(recs[n + 1])
             numeric  == countNumericCells(recs[n + 1])
         IN  IF /\ nonEmpty >= MinHeaderCells
                /\ numeric <= MaxHeaderNumeric
                /\ nonEmpty >= maxNonEmpty
             THEN headerScanLast(recs, n + 1, n, nonEmpty)
             ELSE headerScanLast(recs, n + 1, headerRow, maxNonEmpty)

\* The header loop of detectTableBoundariesImproved from row n (0-based) on.
RECURSIVE headerScan(_, _, _, _)
headerScan(recs, n, headerRow, maxNonEmpty) ==
    IF n >= Len(recs) THEN [headerRow |-> headerRow, maxNonEmpty |-> maxNonEmpty]
    ELSE LET nonEmpty == countNonEmptyCells(recs[n + 1])
             numeric  == countNumericCells(recs[n + 1])
         IN  IF /\ nonEmpty >= MinHeaderCells
                /\ numeric <= MaxHeaderNumeric
                /\ nonEmpty > maxNonEmpty
             THEN headerScan(recs, n + 1, n, nonEmpty)
             ELSE headerScan(recs, n + 1, headerRow, maxNonEmpty)

\* What the fallback loop returns when row n is the first row with data.
fallbackBoundsPastEnd(recs, n) == <<n, Len(recs)>>

fallbackBounds(recs, n) == <<n, Len(recs) - 1>>

\* A fallback that takes row n whether it has data or not.
fallbackScanFirstRow(recs, n) ==
    IF n >= Len(recs) THEN <<0, 0>> ELSE fallbackBounds(recs, n)

\* The fallback loop of detectTableBoundariesImproved from row n on.
RECURSIVE fallbackScan(_, _)
fallbackScan(recs, n) ==
    IF n >= Len(recs) THEN <<0, 0>>
    ELSE IF hasData(recs[n + 1]) THEN fallbackBounds(recs, n)
         ELSE fallbackScan(recs, n + 1)

\* An extent loop that passes over rows without cells instead of stopping.
RECURSIVE extentScanPastBlank(_, _, _, _)
extentScanPastBlank(recs, n, tableEnd, expectedCols) ==
    IF n >= Len(recs) THEN tableEnd
    ELSE LET nonEmpty == countNonEmptyCells(recs[n + 1])
         IN  IF nonEmpty > 0 /\ nonEmpty < expectedCols \div FooterDivisor
             THEN tableEnd
             ELSE IF nonEmpty >= expectedCols \div BodyDivisor
                  THEN extentScanPastBlank(recs, n + 1, n, expectedCols)
                  ELSE extentScanPastBlank(recs, n + 1, tableEnd, expectedCols)

\* An extent loop that moves the end to every row it does not stop at.
RECURSIVE extentScanGreedy(_, _, _, _)
extentScanGreedy(recs, n, tableEnd, expectedCols) ==
    IF n >= Len(recs) THEN tableEnd
    ELSE LET nonEmpty == countNonEmptyCells(recs[n + 1])
         IN  IF nonEmpty > 0 /\ nonEmpty < expectedCols \div FooterDivisor
             THEN tableEnd
             ELSE IF nonEmpty = 0
                  THEN tableEnd
                  ELSE extentScanGreedy(recs, n + 1, n, expectedCols)

\* The extent loop of detectTableBoundariesImproved from row n on.
RECURSIVE extentScan(_, _, _, _)
extentScan(recs, n, tableEnd, expectedCols) ==
    IF n >= Len(recs) THEN tableEnd
    ELSE LET nonEmpty == countNonEmptyCells(recs[n + 1])
         IN  IF nonEmpty > 0 /\ nonEmpty < expectedCols \div FooterDivisor
             THEN tableEnd
             ELSE IF nonEmpty >= expectedCols \div BodyDivisor
                  THEN extentScan(recs, n + 1, n, expectedCols)
                  ELSE IF nonEmpty = 0
                       THEN tableEnd
                       ELSE extentScan(recs, n + 1, tableEnd, expectedCols)

\* detectTableBoundariesImproved: <<start, end>>, 0-based and inclusive.
detectTableBoundariesImproved(recs) ==
    IF Len(recs) = 0 THEN <<0, 0>>
    ELSE LET h == headerScan(recs, 0, -1, 0)
         IN  IF h.headerRow = -1
             THEN fallbackScan(recs, 0)
             ELSE <<h.headerRow,
                    extentScan(recs, h.headerRow + 1, h.headerRow, h.maxNonEmpty)>>

\* The slice expression records[low : high+1] with high one row too short.
sliceRowsExclusive(recs, low, high) ==
    IF low < 0 \/ high > Len(recs) \/ low > high
    THEN [status |-> "panic", rows |-> <<>>]
    ELSE [status |-> "ok", rows |-> SubSeq(recs, low + 1, high)]

\* The slice expression records[low : high+1] with the rows without data
\* left out.
sliceRowsWithData(recs, low, high) ==
    IF low < 0 \/ high + 1 > Len(recs) \/ low > high + 1
    THEN [status |-> "panic", rows |-> <<>>]
    ELSE [status |-> "ok",
          rows |-> SelectSeq(SubSeq(recs, low + 1, high + 1), hasData)]

\* The slice expression records[low : high+1]; it panics when the bounds are
\* out of range.
sliceRows(recs, low, high) ==
    IF low < 0 \/ high + 1 > Len(recs) \/ low > high + 1
    THEN [status |-> "panic", rows |-> <<>>]
    ELSE [status |-> "ok", rows |-> SubSeq(recs, low + 1, high + 1)]

\* The test of the manual boundaries without its range checks.
forcedBoundsUsableUnchecked(recs, start, end) == start >= 0 /\ end >= start

\* The test of the manual boundaries in processTableData.
forcedBoundsUsable(recs, start, end) ==
    start >= 0 /\ end >= start /\ start < Len(recs) /\ end < Len(recs)

\* processTableData: the returned rows, whether the call panicked, and the
\* bounds detectTableBoundariesImproved returned (Nil when it was not called).
processTableData(conv, recs) ==
    IF Len(recs) = 0
    THEN [status |-> "ok", rows |-> recs, detected |-> Nil]
    ELSE IF /\ conv.ForceDataStartRow # Nil
            /\ conv.ForceDataEndRow # Nil
            /\ forcedBoundsUsable(recs, conv.ForceDataStartRow[1],
                                  conv.ForceDataEndRow[1])
         THEN sliceRows(recs, conv.ForceDataStartRow[1], conv.ForceDataEndRow[1])
                  @@ [detected |-> Nil]
         ELSE LET b == detectTableBoundariesImproved(recs)
              IN  IF b[1] >= 0 /\ b[2] >= b[1] /\ b[2] < Len(recs)
                  THEN sliceRows(recs, b[1], b[2]) @@ [detected |-> b]
                  ELSE [status |-> "ok", rows |-> recs, detected |-> b]

\* ---------------------------------------------------- SpecTable: inputs

\* Largest number of CSV records.
MaxRecords == 3

\* Cells of a CSV record.
TEmpty  == <<>>
TBlank  == <<" ">>
TText   == <<"x">>
TDash   == <<"-">>
TNum    == <<"1">>
TNumFmt == <<" ", "1", ",", "1", " ", "1", ".">>

\* Records as csv.Reader.ReadAll returns them, all with the same number of
\* fields: blank cells only, a one-cell note, a two-cell total, a five-column
\* header, a six-column header with one number, and data rows with too many
\* numbers to be headers.
RecordPool ==
    { <<TEmpty, TBlank, TEmpty, TBlank, TEmpty, TEmpty>>,
      <<TText, TEmpty, TEmpty, TEmpty, TEmpty, TBlank>>,
      <<TDash, TBlank, TEmpty, TEmpty, TNum, TEmpty>>,
      <<TText, TDash, TText, TText, TDash, TEmpty>>,
      <<TText, TText, TNumFmt, TDash, TText, TText>>,
      <<TNum, TText, TNumFmt, TBlank, TNum, TText>>,
      <<TText, TNum, TNum, TNumFmt, TText, TNum>> }

TableGrids == UNION { [1..n -> RecordPool] : n \in 0..MaxRecords }

\* A title row, a header of five columns, two data rows and a total row, as
\* the CSV export pads them to five fields.
ScenarioFourGrid ==
    << <<TText, TEmpty, TEmpty, TEmpty, TEmpty>>,
       <<TText, TText, TText, TText, TText>>,
       <<TNum, TText, TNum, TText, TNum>>,
       <<TNum, TText, TNum, TText, TNum>>,
       <<TText, TEmpty, TEmpty, TEmpty, TEmpty>> >>

\* Values of ForceDataStartRow and ForceDataEndRow: nil, or a pointer to a
\* row number that is negative, inside or past the largest grid.
ForceRows == {Nil} \cup { Ptr(v) : v \in (-1)..MaxRecords }

\* ---------------------------------------------------- SpecTable: actions

\* copyCSVFile has read the records and is about to call processTableData.
InitTable ==
    /\ records \in TableGrids \cup {ScenarioFourGrid}
    /\ ec \in [ForceDataStartRow : ForceRows, ForceDataEndRow : ForceRows]
    /\ processed = <<>>
    /\ detected = Nil
    /\ tpc = "call"
    /\ SheetIdle
    /\ CleanIdle
    /\ OpenIdle
    /\ FileIdle
    /\ FsIdle
    /\ TempIdle
    /\ HttpIdle

\* processedRecords := ec.processTableData(records)
ProcessTableData ==
    /\ tpc = "call"
    /\ LET r == processTableData(ec, records)
       IN  /\ processed' = [status |-> r.status, rows |-> r.rows]
           /\ detected' = r.detected
    /\ tpc' = "done"
    /\ UNCHANGED << records, ec >>
    /\ UNCHANGED notTableVars

NextTable == ProcessTableData

SpecTable == InitTable /\ [][NextTable]_vars

\* ----------------------------------------------------------------- claims

\* The row has no cell at some required index.
ShortForRequired(row) ==
    \E j \in 1..Len(requiredIndexes) : requiredIndexes[j] >= Len(row)

\* Convert stopped in its data loop, at row i.
AbortedAtDataRow ==
    pc = "done" /\ result = "panic" /\ out # <<>> /\ i < RowsCount

\* C1: a data row that has no cell at some required index is treated as an
\* invalid row: Convert omits it and goes on with the next row, it does not
\* abort at that row.
C1_ShortRowOmitted ==
    ~(AbortedAtDataRow /\ ShortForRequired(grid[i + 1]))

\* The first Convert call on the Sheet has returned.
FirstDone == pc = "done" /\ first = NoFirst

\* The second Convert call on the Sheet has returned.
SecondDone == pc = "done" /\ first # NoFirst

\* The second call was given the arguments of the first.
SameArguments ==
    first.possibleHeaders = possibleHeaders /\ first.argRequired = argRequired

\* C2: Convert called twice in a row on the same Sheet with the same
\* possibleHeaders and requiredHeaders returns the same value and writes the
\* same records both times.  Stated for at most one required header, where
\* the order of the map plays no part in either call.
C2_Idempotent ==
    (SecondDone /\ SameArguments /\ Len(argRequired) <= 1)
        => (result = first.result /\ out = first.out)

\* One fixed order of visiting the map with key set S.
FixedOrder(S) == CHOOSE o \in Orders(S) : TRUE

\* C3: on a fresh Sheet the outcome of Convert does not depend on the order in
\* which possibleHeaders is iterated: what Convert returns and the records it
\* writes are those of Convert under one fixed order.
C3_Deterministic ==
    FirstDone
        => LET fixed == ConvertInOrder(grid, possibleHeaders, argRequired,
                                       FixedOrder(DOMAIN possibleHeaders))
           IN  result = fixed.result /\ out = fixed.out

\* C4: when Convert has returned, the caller's requiredHeaders slice holds the
\* elements the caller put in it, at the same positions.
C4_InputsUnchanged ==
    pc = "done" => requiredHeaders = argRequired

\* The values of the possibleHeaders map.
Values(possible) == { possible[a] : a \in DOMAIN possible }

DuplicateFree(required) ==
    \A j, k \in 1..Len(required) : required[j] = required[k] => j = k

\* The row has, for every required field, a cell whose trimmed, lower-cased
\* text contains the lower-cased form of an alias of that field.
Qualifies(row, possible, required) ==
    \A j \in 1..Len(required) :
        \E k \in 1..Len(row), a \in DOMAIN possible :
            /\ possible[a] = required[j]
            /\ Contains(ToLower(Trim(row[k])), ToLower(a))

QualifyingRows ==
    { r \in 0..(RowsCount - 1) : Qualifies(grid[r + 1], possibleHeaders, argRequired) }

\* C5: for duplicate-free requiredHeaders that are all values of
\* possibleHeaders, detectFileHeaders selects the lowest-index qualifying row
\* of the grid, whatever the rows before it hold, and Convert fails with
\* errMissedHeaders when no row qualifies.
C5_HeaderRowSelection ==
    ( /\ FirstDone
      /\ DuplicateFree(argRequired)
      /\ \A j \in 1..Len(argRequired) : argRequired[j] \in Values(possibleHeaders) )
        => IF QualifyingRows = {}
           THEN ~headerFound /\ result = "errMissedHeaders"
           ELSE /\ headerFound
                /\ headersRow \in QualifyingRows
                /\ \A r \in QualifyingRows : headersRow <= r

\* Some entry of the caller's requiredHeaders is not a value of possibleHeaders.
SomeRequiredUnresolvable ==
    \E j \in 1..Len(argRequired) : argRequired[j] \notin Values(possibleHeaders)

\* C6: if some entry of requiredHeaders is not a value of possibleHeaders,
\* Convert returns errRequiredHeaders from its precondition check: once
\* parseIncomingHeadersInfo has run the call is over with that error, GetRow
\* was never called and nothing was written.
C6_PreconditionCheck ==
    (SomeRequiredUnresolvable /\ pc \notin {"idle", "parse"})
        => /\ pc = "done"
           /\ result = "errRequiredHeaders"
           /\ getRowCalls = 0
           /\ out = <<>>

\* C6 witness: Convert has returned errRequiredHeaders for an unresolvable
\* required field on a sheet that has rows to read.
C6_Witness ==
    /\ pc = "done"
    /\ result = "errRequiredHeaders"
    /\ SomeRequiredUnresolvable
    /\ RowsCount > 0

\* The list without its repeated entries, first occurrences kept.
RECURSIVE Dedup(_)
Dedup(required) ==
    IF required = <<>> THEN <<>>
    ELSE LET front == Dedup(SubSeq(required, 1, Len(required) - 1))
             last == required[Len(required)]
         IN  IF \E j \in 1..Len(front) : front[j] = last
             THEN front
             ELSE Append(front, last)

\* C7: requiredHeaders is treated as a set: Convert called with a list that
\* repeats a field has the outcome (return value, header row, records) of
\* Convert called with the list without the repetitions.
C7_RequiredIsASet ==
    (FirstDone /\ ~DuplicateFree(argRequired))
        => LET asSet == ConvertInOrder(grid, possibleHeaders, Dedup(argRequired),
                                       FixedOrder(DOMAIN possibleHeaders))
           IN  /\ result = asSet.result
               /\ out = asSet.out
               /\ (result = "nil" => headersRow = asSet.headersRow)

\* The projection of a row onto matterIndexes, a missing cell read as blank.
Project(row) ==
    [ j \in 1..Len(matterIndexes) |->
        IF matterIndexes[j] < Len(row) THEN row[matterIndexes[j] + 1] ELSE <<>> ]

\* C8: every record Convert emits is the projection of its source row onto
\* matterIndexes (a cell the row does not have is blank), and a data row that
\* passes the required-cell check is emitted, Convert does not abort at it.
C8_ProjectionInvariant ==
    /\ \A n \in 1..Len(out) : out[n] = Project(grid[outRows[n] + 1])
    /\ ~(AbortedAtDataRow /\ checkRequiredCells(grid[i + 1], requiredIndexes) = "true")

\* A row is valid iff each required index points to a cell of the row whose
\* trimmed text is not blank.
ValidRow(row) ==
    \A j \in 1..Len(requiredIndexes) :
        /\ requiredIndexes[j] < Len(row)
        /\ Trim(row[requiredIndexes[j] + 1]) # <<>>

\* The indexes of the valid rows from row r to the last row, ascending.
RECURSIVE ValidRowsFrom(_)
ValidRowsFrom(r) ==
    IF r >= RowsCount THEN <<>>
    ELSE (IF ValidRow(grid[r + 1]) THEN <<r>> ELSE <<>>) \o ValidRowsFrom(r + 1)

\* C9: once the header record is written, Convert runs to the last row without
\* an error and the data records it emits are made, in ascending row order and
\* each once, from exactly the valid rows after the header row.
C9_RowFilteringExact ==
    (pc = "done" /\ out # <<>>)
        => /\ result = "nil"
           /\ outRows = <<headersRow>> \o ValidRowsFrom(headersRow + 1)

\* C10: whenever Convert returns errRequiredHeaders or errMissedHeaders, no
\* record, header or data, has been written to the destination.
C10_NoPartialOutput ==
    result \in {"errRequiredHeaders", "errMissedHeaders"} => out = <<>>

\* C10 witness: createOutputWriter itself returned errMissedHeaders, after
\* the header row was found and the csv writer was created.
C10_Witness ==
    pc = "done" /\ result = "errMissedHeaders" /\ headerFound

\* ------------------------------------------------- claims: processTableData

\* C11: for every non-empty grid detectTableBoundariesImproved returns
\* (start, end) with 0 <= start <= end < rowCount; for the empty grid it
\* returns (0,0) and processTableData returns an empty result without failing.
C11_BoundsValidity ==
    tpc = "done" =>
        LET b == detectTableBoundariesImproved(records)
        IN  /\ Len(records) > 0 =>
                 /\ 0 <= b[1]
                 /\ b[1] <= b[2]
                 /\ b[2] < Len(records)
                 /\ detected \in {Nil, b}
            /\ Len(records) = 0 =>
                 /\ b = <<0, 0>>
                 /\ processed = [status |-> "ok", rows |-> <<>>]

\* C11 witness: the detection ran on a grid whose table neither starts at the
\* first row nor ends at the last one.
C11_Witness ==
    /\ tpc = "done"
    /\ detected # Nil
    /\ detected[1] > 0
    /\ detected[2] < Len(records) - 1

\* Both forced rows are set.
BothForced == ec.ForceDataStartRow # Nil /\ ec.ForceDataEndRow # Nil

\* Both forced rows are set and 0 <= start <= end < rowCount.
ForcedValid ==
    /\ BothForced
    /\ 0 <= ec.ForceDataStartRow[1]
    /\ ec.ForceDataStartRow[1] <= ec.ForceDataEndRow[1]
    /\ ec.ForceDataEndRow[1] < Len(records)

\* C12: when both forced rows are set with 0 <= s <= e < rowCount,
\* processTableData returns exactly rows s..e of the grid in order and the
\* detection heuristics are not invoked.
C12_ForcedBoundsPrecedence ==
    (tpc = "done" /\ ForcedValid) =>
        /\ processed = [status |-> "ok",
                        rows |-> SubSeq(records, ec.ForceDataStartRow[1] + 1,
                                        ec.ForceDataEndRow[1] + 1)]
        /\ detected = Nil

\* C12 witness: valid forced bounds that cut rows off at both ends and differ
\* from what the heuristics would have chosen.
C12_Witness ==
    /\ tpc = "done"
    /\ ForcedValid
    /\ ec.ForceDataStartRow[1] > 0
    /\ ec.ForceDataEndRow[1] < Len(records) - 1
    /\ detectTableBoundariesImproved(records)
           # <<ec.ForceDataStartRow[1], ec.ForceDataEndRow[1]>>

\* An ExcelConverter without forced rows.
NoForce == [ForceDataStartRow |-> Nil, ForceDataEndRow |-> Nil]

\* C13: when both forced rows are set but violate 0 <= start <= end < rowCount,
\* processTableData does not crash and returns exactly what it returns for the
\* same grid with no forced bounds.
C13_InvalidForcedFallBack ==
    (tpc = "done" /\ BothForced /\ ~ForcedValid) =>
        LET r == processTableData(NoForce, records)
        IN  /\ processed.status = "ok"
            /\ processed.rows = r.rows
            /\ detected = r.detected

\* C13 witness: the forced end row is past the grid, the start row is inside
\* it, and the detection that ran instead returned only a part of the grid.
C13_Witness ==
    /\ tpc = "done"
    /\ BothForced
    /\ ec.ForceDataStartRow[1] \in 0..(Len(records) - 1)
    /\ ec.ForceDataEndRow[1] >= Len(records)
    /\ detected # Nil
    /\ Len(processed.rows) < Len(records)

\* C14: when only ForceDataStartRow is set, to a valid row s, and
\* ForceDataEndRow is nil, the first row of the output is row s of the grid.
C14_ForcedStartRow ==
    ( /\ tpc = "done"
      /\ ec.ForceDataStartRow # Nil
      /\ ec.ForceDataEndRow = Nil
      /\ ec.ForceDataStartRow[1] \in 0..(Len(records) - 1) ) =>
        /\ processed.rows # <<>>
        /\ processed.rows[1] = records[ec.ForceDataStartRow[1] + 1]

MaxCellLen == 4

\* Characters of a cell: a letter, a space, LF, CR and a tab.
CellChars == {"a", " ", "\n", "\r", "\t"}

CellTexts == UNION { [1..n -> CellChars] : n \in 0..MaxCellLen }

\* cleanCellData: the three replacements of line breaks by spaces.
replaceLineBreaks(s) ==
    ReplaceAll(ReplaceAll(ReplaceAll(s, <<"\n">>, <<" ">>),
                          <<"\r">>, <<" ">>),
               <<"\r", "\n">>, <<" ">>)

\* A loop condition that never holds.
hasDoubleSpaceNever(s) == FALSE

\* cleanCellData: the loop condition strings.Contains(text, "  ").
hasDoubleSpace(s) == Contains(s, <<" ", " ">>)

\* cleanCellData: the loop body.
collapseOnce(s) == ReplaceAll(s, <<" ", " ">>, <<" ">>)

\* cleanCellData: the loop, run to its end.
RECURSIVE collapseSpaces(_)
collapseSpaces(s) ==
    IF hasDoubleSpace(s) THEN collapseSpaces(collapseOnce(s)) ELSE s

\* cleanCellData
cleanCellData(enabled, s) ==
    IF ~enabled THEN s
    ELSE TrimSpace(collapseSpaces(replaceLineBreaks(s)))

\* copyCSVFile is about to call cleanCellData on a cell.
InitClean ==
    /\ text \in CellTexts
    /\ CleanLineBreaks \in BOOLEAN
    /\ work = <<>>
    /\ cleaned = <<>>
    /\ iters = 0
    /\ cpc = "call"
    /\ SheetIdle
    /\ TableIdle
    /\ OpenIdle
    /\ FileIdle
    /\ FsIdle
    /\ TempIdle
    /\ HttpIdle

\* cleanCellData up to its loop: the early return, or the line breaks replaced.
CleanEnter ==
    /\ cpc = "call"
    /\ IF ~CleanLineBreaks
       THEN /\ cleaned' = text
            /\ cpc' = "done"
            /\ UNCHANGED work
       ELSE /\ work' = replaceLineBreaks(text)
            /\ cpc' = "loop"
            /\ UNCHANGED cleaned
    /\ UNCHANGED << text, CleanLineBreaks, iters >>
    /\ UNCHANGED notCleanVars

\* One iteration of the loop of cleanCellData.
CleanCollapse ==
    /\ cpc = "loop"
    /\ hasDoubleSpace(work)
    /\ work' = collapseOnce(work)
    /\ iters' = iters + 1
    /\ UNCHANGED << text, CleanLineBreaks, cleaned, cpc >>
    /\ UNCHANGED notCleanVars

\* The loop of cleanCellData ends and the trimmed text is returned.
CleanReturn ==
    /\ cpc = "loop"
    /\ ~hasDoubleSpace(work)
    /\ cleaned' = TrimSpace(work)
    /\ cpc' = "done"
    /\ UNCHANGED << text, CleanLineBreaks, work, iters >>
    /\ UNCHANGED notCleanVars

NextClean ==
    \/ CleanEnter
    \/ CleanCollapse
    \/ CleanReturn

SpecClean == InitClean /\ [][NextClean]_vars

\* ---------------------------------------------------- claims: cleanCellData

\* C16: with CleanLineBreaks enabled cleanCellData terminates (its loop runs
\* at most once per character of the input and every iteration shortens the
\* text) and returns text that has no CR or LF, no two consecutive spaces and
\* no leading or trailing white space, and cleaning the cleaned text changes
\* nothing; with CleanLineBreaks disabled it returns the input unchanged.
C16_LineBreakCleaning ==
    /\ iters <= Len(text)
    /\ (cpc = "loop" /\ hasDoubleSpace(work)) => Len(collapseOnce(work)) < Len(work)
    /\ (cpc = "done" /\ CleanLineBreaks) =>
          /\ \A j \in 1..Len(cleaned) : cleaned[j] \notin {"\n", "\r"}
          /\ ~Contains(cleaned, <<" ", " ">>)
          /\ cleaned # <<>> => ~IsSpace(cleaned[1]) /\ ~IsSpace(cleaned[Len(cleaned)])
          /\ cleanCellData(TRUE, cleaned) = cleaned
          /\ cleaned = cleanCellData(TRUE, text)
    /\ (cpc = "done" /\ ~CleanLineBreaks) => cleaned = text

\* C16 witness: a cell with a CR LF pair next to a space was cleaned in two
\* iterations of the loop and something is left of it.
C16_Witness ==
    /\ cpc = "done"
    /\ CleanLineBreaks
    /\ Contains(text, <<"\r", "\n">>)
    /\ iters >= 2
    /\ cleaned # <<>>
    /\ cleaned # text

\* -------------------------------------------------------------------- Open

\* Largest number of sheets of a workbook.
MaxSheets == 2

\* SupportedTypes
SupportedTypes == << "xls", "xlsx" >>

\* A sheet of a workbook as a reader sees it: its name and its row count.
BookSheets == [Name : {"A", "B"}, Rows : {0, 2}]

\* The workbooks a reader variant can read.
Books == UNION { [1..n -> BookSheets] : n \in 0..MaxSheets }

\* What MayBeSupported(filename) of each variant finds: an error, or a workbook.
Files == [ {"xls", "xlsx"} -> {Nil} \cup { Ptr(b) : b \in Books } ]

\* The workbook the reader excel reads.
BookOf(e) == file[e.variant][1]

\* GetSheets
GetSheets(e) == [ j \in 1..Len(BookOf(e)) |-> BookOf(e)[j].Name ]

\* A UseSheetByIndex that leaves a sheet that is already selected in place.
UseSheetByIndexOnce(e, index) ==
    IF e.sheet = Nil THEN [e EXCEPT !.sheet = Ptr(index)] ELSE e

\* UseSheetByIndex
UseSheetByIndex(e, index) == [e EXCEPT !.sheet = Ptr(index)]

\* GetRowsCount: the row count of the current sheet.
GetRowsCount(e) == BookOf(e)[e.sheet[1] + 1].Rows

\* Open(filename) is called.
InitOpen ==
    /\ file \in Files
    /\ typeIndex = 0
    /\ excel = Nil
    /\ sheetNames = <<>>
    /\ sheetLoop = 0
    /\ sheets = <<>>
    /\ openResult = "none"
    /\ opc = "types"
    /\ SheetIdle
    /\ TableIdle
    /\ CleanIdle
    /\ FileIdle
    /\ FsIdle
    /\ TempIdle
    /\ HttpIdle

\* One iteration of the loop over SupportedTypes up to the test of excel, and
\* the return of errNotSupported after the last one.
OpenMayBeSupported ==
    /\ opc = "types"
    /\ IF typeIndex >= Len(SupportedTypes)
       THEN /\ openResult' = "errNotSupported"
            /\ opc' = "done"
            /\ UNCHANGED << typeIndex, excel >>
       ELSE LET t == SupportedTypes[typeIndex + 1]
            IN  IF file[t] # Nil
                THEN /\ excel' = [variant |-> t, sheet |-> Nil]
                     /\ opc' = "getSheets"
                     /\ UNCHANGED << typeIndex, openResult >>
                ELSE /\ excel' = Nil
                     /\ typeIndex' = typeIndex + 1
                     /\ UNCHANGED << openResult, opc >>
    /\ UNCHANGED << file, sheetNames, sheetLoop, sheets >>
    /\ UNCHANGED notOpenVars

\* sheetNames := excel.GetSheets() and the test for an empty book.
OpenGetSheets ==
    /\ opc = "getSheets"
    /\ sheetNames' = GetSheets(excel)
    /\ IF Len(GetSheets(excel)) = 0
       THEN /\ openResult' = "errEmptyBook"
            /\ opc' = "done"
       ELSE /\ opc' = "sheets"
            /\ UNCHANGED openResult
    /\ UNCHANGED << file, typeIndex, excel, sheetLoop, sheets >>
    /\ UNCHANGED notOpenVars

\* One iteration of the loop over sheetNames.
OpenAppendSheet ==
    /\ opc = "sheets"
    /\ sheetLoop < Len(sheetNames)
    /\ LET e == UseSheetByIndex(excel, sheetLoop)
       IN  /\ excel' = e
           /\ sheets' = Append(sheets, [Name |-> sheetNames[sheetLoop + 1],
                                        RowsCount |-> GetRowsCount(e),
                                        index |-> sheetLoop])
    /\ sheetLoop' = sheetLoop + 1
    /\ UNCHANGED << file, typeIndex, sheetNames, openResult, opc >>
    /\ UNCHANGED notOpenVars

\* excel.UseSheetByIndex(0) and the return of the sheets.
OpenReturn ==
    /\ opc = "sheets"
    /\ sheetLoop >= Len(sheetNames)
    /\ excel' = UseSheetByIndex(excel, 0)
    /\ openResult' = "ok"
    /\ opc' = "done"
    /\ UNCHANGED << file, typeIndex, sheetNames, sheetLoop, sheets >>
    /\ UNCHANGED notOpenVars

NextOpen ==
    \/ OpenMayBeSupported
    \/ OpenGetSheets
    \/ OpenAppendSheet
    \/ OpenReturn

SpecOpen == InitOpen /\ [][NextOpen]_vars

\* ------------------------------------------------------------ claims: Open

\* The variants that accept the file.
Accepting == { j \in 1..Len(SupportedTypes) : file[SupportedTypes[j]] # Nil }

\* The first variant, in SupportedTypes order, that accepts the file.
FirstAccepting ==
    SupportedTypes[CHOOSE j \in Accepting : \A k \in Accepting : j <= k]

\* C17: Open uses the first variant in SupportedTypes order that accepts the
\* file; it returns errNotSupported exactly when no variant accepts it,
\* errEmptyBook when the accepting variant reports zero sheets, and otherwise
\* one Sheet per sheet name in workbook order whose index is its position and
\* whose RowsCount is the row count of that sheet; after Open the reader's
\* current sheet is sheet 0.
C17_Open ==
    opc = "done" =>
        /\ openResult = "errNotSupported" <=> Accepting = {}
        /\ Accepting # {} =>
              LET wb == file[FirstAccepting][1]
              IN  /\ excel # Nil /\ excel.variant = FirstAccepting
                  /\ openResult = "errEmptyBook" <=> Len(wb) = 0
                  /\ Len(wb) > 0 =>
                        /\ openResult = "ok"
                        /\ Len(sheets) = Len(wb)
                        /\ \A j \in 1..Len(wb) :
                               /\ sheets[j].Name = wb[j].Name
                               /\ sheets[j].index = j - 1
                               /\ sheets[j].RowsCount = wb[j].Rows
                        /\ excel.sheet = Ptr(0)

\* C17 witness: the first variant rejected the file, the second one read a
\* workbook of two sheets with different row counts, unlike the workbook the
\* first one would have read.
C17_Witness ==
    /\ opc = "done"
    /\ openResult = "ok"
    /\ typeIndex = 1
    /\ Len(sheets) >= 2
    /\ sheets[1].RowsCount # sheets[2].RowsCount

\* ------------------------------------------------ ExcelConverter: ConvertFile

\* copyCSVFile: the records written to dstPath for the records read from
\* srcPath, Nil if the call crashed.
copyCSVFile(conv, clean, recs) ==
    LET r == processTableData(conv, recs)
    IN  IF r.status # "ok" THEN Nil
        ELSE Ptr([ k \in 1..Len(r.rows) |->
                     [ j \in 1..Len(r.rows[k]) |->
                         IF clean THEN cleanCellData(clean, r.rows[k][j])
                         ELSE r.rows[k][j] ] ])

\* Names of the sheets of a workbook, by position.
SheetNameAt == << "Sheet1", "Sheet2", "Sheet3", "Sheet4" >>

\* The records of a sheet: a header and a data row; a wider header, a data
\* row and a note; a blank row and a total.
SheetRecordsPool ==
    { << <<TText, TDash, TText, TText, TDash, TEmpty>>,
         <<TNum, TText, TNumFmt, TBlank, TNum, TText>> >>,
      << <<TText, TText, TNumFmt, TDash, TText, TText>>,
         <<TText, TNum, TNum, TNumFmt, TText, TNum>>,
         <<TText, TEmpty, TEmpty, TEmpty, TEmpty, TBlank>> >>,
      << <<TEmpty, TBlank, TEmpty, TBlank, TEmpty, TEmpty>>,
         <<TDash, TBlank, TEmpty, TEmpty, TNum, TEmpty>> >> }

\* Workbooks of one to MaxSheets sheets.
Workbooks ==
    UNION { { [ j \in 1..n |-> [Name |-> SheetNameAt[j], Records |-> g[j]] ] :
                g \in [1..n -> SheetRecordsPool] } : n \in 1..MaxSheets }

\* The sheet selections the command line and the HTTP server can set for a
\* workbook: none, one of its sheets by name, or one of its sheets by index.
Selections(wb) ==
    { [SheetName |-> "", SheetIndex |-> Nil] }
    \cup { [SheetName |-> wb[j].Name, SheetIndex |-> Nil] : j \in 1..Len(wb) }
    \cup { [SheetName |-> "", SheetIndex |-> Ptr(j - 1)] : j \in 1..Len(wb) }

\* Extensions of inputPath.
Extensions == { ".xlsx", ".xls", ".ods", ".csv" }

\* ConvertFile(inputPath, outputPath) is called.
InitFile ==
    /\ inputExt \in Extensions
    /\ book \in Workbooks
    /\ \E sel \in Selections(book), clean \in BOOLEAN :
           selection = sel @@ [CleanLineBreaks |-> clean]
    /\ tempCSV = Nil
    /\ outputCSV = Nil
    /\ fpc = "call"
    /\ SheetIdle
    /\ TableIdle
    /\ CleanIdle
    /\ OpenIdle
    /\ FsIdle
    /\ TempIdle
    /\ HttpIdle

\* ConvertFile: the switch on the extension.
ConvertFile ==
    /\ fpc = "call"
    /\ fpc' = IF inputExt \in {".xlsx", ".xls", ".ods"} THEN "libreoffice" ELSE "error"
    /\ UNCHANGED << inputExt, book, selection, tempCSV, outputCSV >>
    /\ UNCHANGED notFileVars

\* convertViaLibreOffice up to the search for the generated CSV: the command
\* is run without any sheet argument, so LibreOffice exports the first sheet
\* of the workbook, or fails.
ConvertViaLibreOffice ==
    /\ fpc = "libreoffice"
    /\ \/ /\ tempCSV' = Ptr(book[1].Records)
          /\ fpc' = "converted"
       \/ /\ tempCSV' = Nil
          /\ fpc' = "error"
    /\ UNCHANGED << inputExt, book, selection, outputCSV >>
    /\ UNCHANGED notFileVars

\* return ec.copyCSVFile(tempCSVPath, outputPath)
CopyCSVFile ==
    /\ fpc = "converted"
    /\ outputCSV' = copyCSVFile(NoForce, selection.CleanLineBreaks, tempCSV[1])
    /\ fpc' = "done"
    /\ UNCHANGED << inputExt, book, selection, tempCSV >>
    /\ UNCHANGED notFileVars

NextFile ==
    \/ ConvertFile
    \/ ConvertViaLibreOffice
    \/ CopyCSVFile

SpecFile == InitFile /\ [][NextFile]_vars

\* ----------------------------------------------------- claims: ConvertFile

\* The position (from 1) of the sheet SheetIndex or SheetName designates, the
\* first sheet if neither is set.
Designated ==
    IF selection.SheetIndex # Nil THEN selection.SheetIndex[1] + 1
    ELSE IF selection.SheetName # ""
         THEN CHOOSE j \in 1..Len(book) : book[j].Name = selection.SheetName
         ELSE 1

\* C18: when SheetIndex or SheetName designates a sheet other than the first
\* sheet of the workbook, the CSV ConvertFile writes is built from the rows
\* of the designated sheet.
C18_SheetSelectionHonoured ==
    (fpc = "done" /\ Designated # 1) =>
        outputCSV = copyCSVFile(NoForce, selection.CleanLineBreaks,
                                book[Designated].Records)

\* ------------------------------------------------- claims: column indexes

\* The header row of the first Convert call on a new Sheet has been resolved.
FreshHeaderResolved == headerFound /\ call = 1

\* The cell contains an alias of the field.
CellNames(cell, field) ==
    \E a \in DOMAIN possibleHeaders :
        /\ possibleHeaders[a] = field
        /\ Contains(ToLower(Trim(cell)), ToLower(a))

\* The leftmost columns of the selected header row that name a required field.
LeftmostRequired ==
    { k \in 0..(Len(headers) - 1) :
        \E j \in 1..Len(argRequired) :
            /\ CellNames(headers[k + 1], argRequired[j])
            /\ \A l \in 0..(k - 1) : ~CellNames(headers[l + 1], argRequired[j]) }

\* C19: after a successful header resolution requiredIndexes holds exactly one
\* column per required field, the leftmost column of the selected header row
\* whose cell contains an alias of the field; it holds no column recorded
\* from another row, and every index in it is in matterIndexes and is a
\* valid column of the header row.  (Stated for a duplicate-free required
\* list whose array the header search has left as the caller wrote it.)
C19_RequiredIndexes ==
    (FreshHeaderResolved /\ DuplicateFree(argRequired)
                         /\ requiredHeaders = argRequired) =>
        /\ Len(requiredIndexes) = Len(argRequired)
        /\ { requiredIndexes[j] : j \in 1..Len(requiredIndexes) } = LeftmostRequired
        /\ \A j \in 1..Len(requiredIndexes) :
               /\ requiredIndexes[j] \in 0..(Len(headers) - 1)
               /\ \E l \in 1..Len(matterIndexes) : matterIndexes[l] = requiredIndexes[j]

\* The grid of Scenario 1 is converted with both aliases and required
\* {price}, for the first time.
ScenarioOne ==
    /\ grid = ScenarioOneGrid
    /\ possibleHeaders = PossibleBoth
    /\ argRequired = <<"price">>
    /\ call = 1

\* C20: on a fresh Sheet matterIndexes after a successful header resolution
\* is exactly the list of the columns of the selected header row whose
\* trimmed cell is non-blank, ascending and without repetition, whether or
\* not the cell matched an alias; in Scenario 1 the header resolves at row 2
\* with matterIndexes = [0,1,2] and requiredIndexes = [2].
C20_MatterIndexes ==
    /\ FreshHeaderResolved =>
          /\ \A j \in 1..(Len(matterIndexes) - 1) :
                 matterIndexes[j] < matterIndexes[j + 1]
          /\ { matterIndexes[j] : j \in 1..Len(matterIndexes) }
                 = { k \in 0..(Len(headers) - 1) : Trim(headers[k + 1]) # <<>> }
    /\ (ScenarioOne /\ pc = "done") =>
          /\ headerFound
          /\ headersRow = 2
          /\ matterIndexes = <<0, 1, 2>>
          /\ requiredIndexes = <<2>>

\* C20 witness: Scenario 1 has run to its end, its header has a non-blank
\* cell that matches no alias, and the data loop found nothing wrong.
C20_Witness ==
    /\ ScenarioOne
    /\ pc = "done"
    /\ result = "nil"
    /\ \E k \in 1..Len(headers) :
           /\ Trim(headers[k]) # <<>>
           /\ \A a \in DOMAIN possibleHeaders :
                  ~Contains(ToLower(Trim(headers[k])), ToLower(a))

\* ---------------------------------- claims: detectTableBoundariesImproved

\* detectTableBoundariesImproved has run and returned.
DetectionRan == tpc = "done" /\ detected # Nil

\* Number of cells of row n (0-based) that are not blank.
NonEmptyAt(n) ==
    Cardinality({ j \in 1..Len(records[n + 1]) : TrimSpace(records[n + 1][j]) # <<>> })

\* The rows with nonEmpty >= 5 and numeric <= 1.
Candidates ==
    { n \in 0..(Len(records) - 1) :
        /\ NonEmptyAt(n) >= 5
        /\ countNumericCells(records[n + 1]) <= 1 }

\* C21: when some row has nonEmpty >= 5 and numeric <= 1, the start is the
\* lowest row among the candidate rows with the largest nonEmpty count; rows
\* with numeric >= 2 or nonEmpty < 5 are never the start, and candidates
\* anywhere in the grid compete.
C21_HeaderCandidate ==
    (DetectionRan /\ Candidates # {}) =>
        /\ detected[1] \in Candidates
        /\ \A c \in Candidates :
               /\ NonEmptyAt(c) <= NonEmptyAt(detected[1])
               /\ NonEmptyAt(c) = NonEmptyAt(detected[1]) => detected[1] <= c

\* C21 witness: the last row of the grid was chosen over an earlier candidate
\* with fewer cells and over a row with as many cells but too many numbers.
C21_Witness ==
    /\ DetectionRan
    /\ detected[1] = Len(records) - 1
    /\ \E c \in Candidates : c < detected[1]
    /\ \E n \in 0..(Len(records) - 1) :
           n \notin Candidates /\ NonEmptyAt(n) >= NonEmptyAt(detected[1])

\* The rows with a non-blank cell.
RowsWithData == { n \in 0..(Len(records) - 1) : NonEmptyAt(n) > 0 }

\* Least element of a non-empty set of numbers.
Least(S) == CHOOSE n \in S : \A m \in S : n <= m

\* Greatest element of a non-empty set of numbers.
Greatest(S) == CHOOSE n \in S : \A m \in S : m <= n

\* C22: when no row has nonEmpty >= 5 and numeric <= 1 and the grid has a
\* non-blank cell, the bounds are (first row with a non-blank cell,
\* rowCount-1), and every row from there to the end of the grid is output.
C22_NoCandidateFallback ==
    (DetectionRan /\ Candidates = {} /\ RowsWithData # {}) =>
        /\ detected = << Least(RowsWithData), Len(records) - 1 >>
        /\ processed.rows = SubSeq(records, Least(RowsWithData) + 1, Len(records))

\* C22 witness: the first row with data is not the first row, and a blank
\* row after it is part of the output.
C22_Witness ==
    /\ DetectionRan
    /\ Candidates = {}
    /\ RowsWithData # {}
    /\ Least(RowsWithData) > 0
    /\ NonEmptyAt(Len(records) - 1) = 0
    /\ Len(processed.rows) = Len(records) - Least(RowsWithData)

\* The rows after the header row h that stop the extent scan: no cell, or
\* fewer than floor(expectedCols/3) cells.
StopRows(h) ==
    { k \in (h + 1)..(Len(records) - 1) :
        \/ NonEmptyAt(k) = 0
        \/ NonEmptyAt(k) > 0 /\ NonEmptyAt(k) < NonEmptyAt(h) \div 3 }

\* The rows after the header row h that neither stop the scan nor have
\* floor(expectedCols/2) cells.
ToleratedRows(h) ==
    { k \in (h + 1)..(Len(records) - 1) :
        /\ NonEmptyAt(k) >= NonEmptyAt(h) \div 3
        /\ NonEmptyAt(k) > 0
        /\ NonEmptyAt(k) < NonEmptyAt(h) \div 2 }

\* C23: with k the lowest row after the header row with nonEmpty = 0 or
\* 0 < nonEmpty < floor(expectedCols/3), the end is strictly less than k,
\* however dense the later rows are; a row with floor(expectedCols/3) <=
\* nonEmpty < floor(expectedCols/2) does not stop the scan.
C23_ExtentStopRule ==
    (DetectionRan /\ Candidates # {}) =>
        LET h == detected[1]
        IN  /\ StopRows(h) # {} => detected[2] < Least(StopRows(h))
            /\ \A t \in ToleratedRows(h) :
                   ( /\ \A k \in StopRows(h) : k > t + 1
                     /\ t + 1 < Len(records)
                     /\ NonEmptyAt(t + 1) >= NonEmptyAt(h) \div 2 )
                   => detected[2] >= t + 1

\* C23 witness: a stopping row right after the header row, followed by a row
\* as dense as the header row.
C23_Witness ==
    /\ DetectionRan
    /\ Candidates # {}
    /\ StopRows(detected[1]) # {}
    /\ \E m \in (Least(StopRows(detected[1])) + 1)..(Len(records) - 1) :
           NonEmptyAt(m) >= NonEmptyAt(detected[1])
    /\ detected[2] = detected[1]

\* The first row at which the extent scan from header row h ends: the first
\* stopping row, or the end of the grid.
ScanLimit(h) == Least(StopRows(h) \cup {Len(records)})

\* C24: when a header candidate exists, the end is the greatest row after
\* the header row and before the first stopping row (or the end of the grid)
\* with nonEmpty >= floor(expectedCols/2), and the header row itself if
\* there is none; a sparse tolerated row is never the end.
C24_ExtentEndRule ==
    (DetectionRan /\ Candidates # {}) =>
        LET h == detected[1]
            dense == { n \in (h + 1)..(ScanLimit(h) - 1) :
                         NonEmptyAt(n) >= NonEmptyAt(h) \div 2 }
        IN  /\ detected[2] = Greatest(dense \cup {h})
            /\ detected[2] \notin ToleratedRows(h)

\* C24 witness: the scan ran to the end of the grid over a tolerated last
\* row, and the end is the row before it.
C24_Witness ==
    /\ DetectionRan
    /\ Candidates # {}
    /\ StopRows(detected[1]) = {}
    /\ Len(records) - 1 \in ToleratedRows(detected[1])
    /\ detected[2] = Len(records) - 2
    /\ detected[2] > detected[1]

\* C25: with a header row of 5 non-empty cells, a later row with exactly 1
\* non-empty cell stops the extent scan, so neither it nor any row after it
\* is inside the bounds; on the Scenario 4 grid the bounds are (1,3).
C25_FooterExclusion ==
    /\ (DetectionRan /\ Candidates # {} /\ NonEmptyAt(detected[1]) = 5) =>
          \A k \in (detected[1] + 1)..(Len(records) - 1) :
              NonEmptyAt(k) = 1 => detected[2] < k
    /\ (DetectionRan /\ records = ScenarioFourGrid) => detected = <<1, 3>>

\* ------------------------------------------------ claims: Convert, results

\* The results with which Convert fails.
ConvertErrors == {"errMissedHeaders", "errRequiredHeaders"}

\* Convert of the current arguments on a freshly opened Sheet over the grid.
FreshConvert ==
    ConvertInOrder(grid, possibleHeaders, argRequired,
                   FixedOrder(DOMAIN possibleHeaders))

\* C26: if Convert returns errMissedHeaders or errRequiredHeaders, a
\* following Convert on the same Sheet with correct arguments has the same
\* outcome as that Convert on a fresh Sheet.  Stated for a second call that
\* succeeds on a fresh Sheet and has at most one required header, where the
\* order of the map plays no part on a fresh Sheet.
C26_FailedConvertReusable ==
    ( /\ SecondDone
      /\ first.result \in ConvertErrors
      /\ Len(argRequired) <= 1
      /\ FreshConvert.result = "nil" ) =>
        result = "nil" /\ out = FreshConvert.out

\* The cells of the row that are not blank, in column order.
NonBlankCells(row) == SelectSeq(row, LAMBDA cell : Trim(cell) # <<>>)

\* C30: whenever Convert returns nil, exactly one header record was written
\* before any data record and it is the non-empty projection of the selected
\* header row; with empty requiredHeaders row 0 is selected as header and
\* Convert succeeds even when row 0 is entirely blank.  Stated for the first
\* Convert on a Sheet.
C30_HeaderRecordFirst ==
    /\ (FirstDone /\ result = "nil") =>
          /\ Len(out) >= 1
          /\ outRows[1] = headersRow
          /\ out[1] = NonBlankCells(headers)
          /\ \A j \in 2..Len(outRows) : outRows[j] > headersRow
    /\ (FirstDone /\ argRequired = <<>> /\ RowsCount > 0
                  /\ NonBlankCells(grid[1]) = <<>>) =>
          /\ result = "nil"
          /\ headersRow = 0

\* ------------------------------------------------------------- file system

\* Paths are sequences of pieces of text, so that strings.HasPrefix and
\* strings.Contains are computed on them.
HomeDir == << "/", "home" >>

\* filepath.Join(homeDir, "excel2csv_temp")
DefaultTempDir == HomeDir \o << "/", "excel2csv_", "temp" >>

\* filepath.Join(homeDir, "excel2csv_temp_http")
HTTPContextTempDir == HomeDir \o << "/", "excel2csv_", "temp", "_http" >>

\* A directory of the caller.
DataDir == << "/", "data" >>

\* A directory under /tmp.
TmpConvDir == << "/", "tmp", "/", "conv" >>

\* strings.HasPrefix
HasPrefix(s, prefix) ==
    Len(prefix) <= Len(s) /\ SubSeq(s, 1, Len(prefix)) = prefix

\* os.MkdirAll(dir): nothing changes if the directory exists.
MkdirAll(f, dir) == IF dir \in DOMAIN f THEN f ELSE f @@ (dir :> <<>>)

\* os.RemoveAll(dir): the directory, its files and what is below it.
RemoveAll(f, dir) ==
    [ d \in { x \in DOMAIN f : x # dir /\ ~HasPrefix(x, dir \o <<"/">>) } |-> f[d] ]

\* A file is created or truncated and written.
WriteFile(f, dir, name, content) ==
    [ f EXCEPT ![dir] = (name :> content) @@ @ ]

\* File names are a base and an extension; os.ReadDir returns them sorted by
\* name.
BaseRank(b) == CASE b = "a" -> 1 [] b = "b" -> 2 [] OTHER -> 3
ExtRank(e) == CASE e = ".csv" -> 1 [] e = ".txt" -> 2 [] OTHER -> 3

NameBefore(n, m) ==
    \/ BaseRank(n[1]) < BaseRank(m[1])
    \/ BaseRank(n[1]) = BaseRank(m[1]) /\ ExtRank(n[2]) < ExtRank(m[2])

\* The CSV lookup of convertViaLibreOffice: the first entry of
\* os.ReadDir(tempDir) whose name has the suffix .csv, Nil if there is none.
firstCSV(f, dir) ==
    LET csvs == { n \in DOMAIN f[dir] : n[2] = ".csv" }
    IN  IF csvs = {} THEN Nil
        ELSE Ptr(CHOOSE n \in csvs : \A m \in csvs : m = n \/ NameBefore(n, m))

\* The temp directory convertViaLibreOffice works in, for a given ec.TempDir.
tempDirFor(setting) ==
    LET t == IF setting = <<>> THEN DefaultTempDir ELSE setting
    IN  IF HasPrefix(t, << "/", "tmp", "/" >>) THEN HTTPContextTempDir ELSE t

\* The deferred cleanup of convertViaLibreOffice.
cleanup(f, dir) ==
    IF ~Contains(dir, << "excel2csv_", "temp" >>) THEN RemoveAll(f, dir) ELSE f

\* ---------------------------------------- ConvertFile and its temp directory

\* Largest number of ConvertFile calls in a row.
MaxConversions == 2

\* The input files, by base name; their extension is .xlsx.
InputNames == {"a", "b"}

\* Settings of ec.TempDir: empty, a directory of the caller, one under /tmp.
TempDirSettings == { <<>>, DataDir, TmpConvDir }

\* The file the caller keeps in its directory.
KeptFile == << "k", ".txt" >>

\* The file systems before the first call: the caller's directory and the
\* directory under /tmp exist, the former with a file in it or empty.
InitialFileSystems ==
    { (DataDir :> (KeptFile :> "notes")) @@ (TmpConvDir :> <<>>),
      (DataDir :> <<>>) @@ (TmpConvDir :> <<>>) }

\* The CSV LibreOffice generates for an input file.
CSVOf(input) == [csvOf |-> input]

\* Before the first ConvertFile call.
InitTemp ==
    /\ fs \in InitialFileSystems
    /\ conversions = 0
    /\ job = <<>>
    /\ tempDir = <<>>
    /\ tempCSVPath = Nil
    /\ copied = Nil
    /\ fsBefore = <<>>
    /\ convResult = "none"
    /\ kpc = "idle"
    /\ SheetIdle
    /\ TableIdle
    /\ CleanIdle
    /\ OpenIdle
    /\ FileIdle
    /\ HttpIdle

\* ConvertFile is called in single-sheet mode: convertViaLibreOffice up to
\* os.MkdirAll(tempDir).
ConvertStart ==
    /\ kpc \in {"idle", "returned"}
    /\ conversions < MaxConversions
    /\ \E input \in InputNames, setting \in TempDirSettings :
          /\ job' = [input |-> input, TempDir |-> setting]
          /\ tempDir' = tempDirFor(setting)
          /\ fs' = MkdirAll(fs, tempDirFor(setting))
    /\ fsBefore' = fs
    /\ conversions' = conversions + 1
    /\ tempCSVPath' = Nil
    /\ copied' = Nil
    /\ convResult' = "none"
    /\ kpc' = "libreoffice"
    /\ UNCHANGED notTempVars

\* The libreoffice command: it writes <base>.csv to tempDir, or fails.
RunLibreOffice ==
    /\ kpc = "libreoffice"
    /\ \/ /\ fs' = WriteFile(fs, tempDir, << job.input, ".csv" >>, CSVOf(job.input))
          /\ kpc' = "find"
          /\ UNCHANGED convResult
       \/ /\ convResult' = "error"
          /\ kpc' = "cleanup"
          /\ UNCHANGED fs
    /\ UNCHANGED << conversions, job, tempDir, tempCSVPath, copied, fsBefore >>
    /\ UNCHANGED notTempVars

\* The lookup of the generated CSV and copyCSVFile.
FindAndCopy ==
    /\ kpc = "find"
    /\ LET c == firstCSV(fs, tempDir)
       IN  /\ tempCSVPath' = c
           /\ IF c = Nil
              THEN /\ convResult' = "error"
                   /\ UNCHANGED copied
              ELSE /\ convResult' = "nil"
                   /\ copied' = Ptr(fs[tempDir][c[1]])
    /\ kpc' = "cleanup"
    /\ UNCHANGED << fs, conversions, job, tempDir, fsBefore >>
    /\ UNCHANGED notTempVars

\* The deferred function of convertViaLibreOffice, and the return.
DeferredCleanup ==
    /\ kpc = "cleanup"
    /\ fs' = cleanup(fs, tempDir)
    /\ kpc' = "returned"
    /\ UNCHANGED << conversions, job, tempDir, tempCSVPath, copied, fsBefore,
                    convResult >>
    /\ UNCHANGED notTempVars

NextTemp ==
    \/ ConvertStart
    \/ RunLibreOffice
    \/ FindAndCopy
    \/ DeferredCleanup

SpecTemp == InitTemp /\ [][NextTemp]_vars

\* ------------------------------------------------ claims: temp directory

\* C27: in any sequence of ConvertFile calls with the default temp directory
\* the CSV a call picks up from the temp directory and copies to its output
\* is the one LibreOffice generated for that call's input.
C27_OwnIntermediateFile ==
    (convResult = "nil" /\ job.TempDir = <<>>) =>
        /\ tempCSVPath = Ptr(<< job.input, ".csv" >>)
        /\ copied = Ptr(CSVOf(job.input))

\* C29: when ConvertFile returns, the default temp directory it created has
\* been removed, and a caller-supplied TempDir that existed before the call
\* still exists with the files that were in it.
C29_CleanupOwnDirectoryOnly ==
    kpc = "returned" =>
        /\ (job.TempDir = <<>> /\ DefaultTempDir \notin DOMAIN fsBefore) =>
               DefaultTempDir \notin DOMAIN fs
        /\ (job.TempDir # <<>> /\ job.TempDir \in DOMAIN fsBefore) =>
               /\ job.TempDir \in DOMAIN fs
               /\ \A n \in DOMAIN fsBefore[job.TempDir] :
                      /\ n \in DOMAIN fs[job.TempDir]
                      /\ fs[job.TempDir][n] = fsBefore[job.TempDir][n]

\* -------------------------------------------- the /convert handler, twice

\* The two requests the server handles at the same time, each in its own
\* goroutine.
Requests == {1, 2}

\* filepath.Join(homeDir, "excel2csv_http_temp"): the directory every
\* request saves its upload in.
HttpTempDir == HomeDir \o << "/", "excel2csv_", "http_", "temp" >>

\* The content of the workbook a request uploads.
Workbook(q) == [workbook |-> q]

\* inputPath and outputPath of a request, as names in HttpTempDir.
InputName(q) == << uploads[q], ".xlsx" >>
OutputName(q) == << uploads[q], ".csv" >>

\* os.Stat / os.Open of a file succeeds.
Exists(f, dir, name) == dir \in DOMAIN f /\ name \in DOMAIN f[dir]

\* The responses of the handler.
Failure == [kind |-> "error", body |-> Nil]
CSVResponse(content) == [kind |-> "csv", body |-> Ptr(content)]

\* Two requests have arrived; each carries a file named a.xlsx or b.xlsx.
InitHttp ==
    /\ fs = <<>>
    /\ uploads \in [Requests -> InputNames]
    /\ hpc = [q \in Requests |-> "start"]
    /\ found = [q \in Requests |-> Nil]
    /\ responses = [q \in Requests |-> Nil]
    /\ SheetIdle
    /\ TableIdle
    /\ CleanIdle
    /\ OpenIdle
    /\ FileIdle
    /\ TempIdle

\* os.MkdirAll(tempDir) and the deferral of os.RemoveAll(tempDir).
HttpMkdir(q) ==
    /\ hpc[q] = "start"
    /\ fs' = MkdirAll(fs, HttpTempDir)
    /\ hpc' = [hpc EXCEPT ![q] = "save"]
    /\ UNCHANGED << uploads, found, responses >>
    /\ UNCHANGED notHttpVars

\* The upload is saved as tempDir/<Filename>; os.Create fails if the
\* directory is gone.
HttpSave(q) ==
    /\ hpc[q] = "save"
    /\ IF HttpTempDir \in DOMAIN fs
       THEN /\ fs' = WriteFile(fs, HttpTempDir, InputName(q), Workbook(q))
            /\ hpc' = [hpc EXCEPT ![q] = "convert"]
            /\ UNCHANGED responses
       ELSE /\ responses' = [responses EXCEPT ![q] = Ptr(Failure)]
            /\ hpc' = [hpc EXCEPT ![q] = "cleanup"]
            /\ UNCHANGED fs
    /\ UNCHANGED << uploads, found >>
    /\ UNCHANGED notHttpVars

\* converter.ConvertFile(inputPath, outputPath) with a new converter, whose
\* TempDir is empty: the temp directory is made and the input is looked up
\* with os.Stat.
HttpConvertStart(q) ==
    /\ hpc[q] = "convert"
    /\ IF Exists(fs, HttpTempDir, InputName(q))
       THEN /\ fs' = MkdirAll(fs, tempDirFor(<<>>))
            /\ hpc' = [hpc EXCEPT ![q] = "libreoffice"]
            /\ UNCHANGED responses
       ELSE /\ fs' = cleanup(MkdirAll(fs, tempDirFor(<<>>)), tempDirFor(<<>>))
            /\ responses' = [responses EXCEPT ![q] = Ptr(Failure)]
            /\ hpc' = [hpc EXCEPT ![q] = "cleanup"]
    /\ UNCHANGED << uploads, found >>
    /\ UNCHANGED notHttpVars

\* The libreoffice command of the request: it reads the file at inputPath and
\* writes <base>.csv to the converter's temp directory, or fails.
HttpLibreOffice(q) ==
    /\ hpc[q] = "libreoffice"
    /\ \/ /\ Exists(fs, HttpTempDir, InputName(q))
          /\ tempDirFor(<<>>) \in DOMAIN fs
          /\ fs' = WriteFile(fs, tempDirFor(<<>>), OutputName(q),
                             CSVOf(fs[HttpTempDir][InputName(q)].workbook))
          /\ hpc' = [hpc EXCEPT ![q] = "find"]
          /\ UNCHANGED responses
       \/ /\ fs' = cleanup(fs, tempDirFor(<<>>))
          /\ responses' = [responses EXCEPT ![q] = Ptr(Failure)]
          /\ hpc' = [hpc EXCEPT ![q] = "cleanup"]
    /\ UNCHANGED << uploads, found >>
    /\ UNCHANGED notHttpVars

\* The CSV lookup, copyCSVFile to outputPath and the converter's deferred
\* cleanup; os.Create(dstPath) fails if the handler's directory is gone.
HttpFindAndCopy(q) ==
    /\ hpc[q] = "find"
    /\ LET d == tempDirFor(<<>>)
           c == IF d \in DOMAIN fs THEN firstCSV(fs, d) ELSE Nil
       IN  /\ found' = [found EXCEPT ![q] = c]
           /\ IF c # Nil /\ HttpTempDir \in DOMAIN fs
              THEN /\ fs' = cleanup(WriteFile(fs, HttpTempDir, OutputName(q),
                                              fs[d][c[1]]), d)
                   /\ hpc' = [hpc EXCEPT ![q] = "send"]
                   /\ UNCHANGED responses
              ELSE /\ fs' = cleanup(fs, d)
                   /\ responses' = [responses EXCEPT ![q] = Ptr(Failure)]
                   /\ hpc' = [hpc EXCEPT ![q] = "cleanup"]
    /\ UNCHANGED uploads
    /\ UNCHANGED notHttpVars

\* os.Stat(outputPath), os.Open and io.Copy to the response.
HttpSend(q) ==
    /\ hpc[q] = "send"
    /\ responses' = [responses EXCEPT ![q] =
          IF Exists(fs, HttpTempDir, OutputName(q))
          THEN Ptr(CSVResponse(fs[HttpTempDir][OutputName(q)]))
          ELSE Ptr(Failure)]
    /\ hpc' = [hpc EXCEPT ![q] = "cleanup"]
    /\ UNCHANGED << fs, uploads, found >>
    /\ UNCHANGED notHttpVars

\* The deferred os.RemoveAll(tempDir) when the handler returns.
HttpCleanup(q) ==
    /\ hpc[q] = "cleanup"
    /\ fs' = RemoveAll(fs, HttpTempDir)
    /\ hpc' = [hpc EXCEPT ![q] = "done"]
    /\ UNCHANGED << uploads, found, responses >>
    /\ UNCHANGED notHttpVars

NextHttp ==
    \E q \in Requests :
        \/ HttpMkdir(q)
        \/ HttpSave(q)
        \/ HttpConvertStart(q)
        \/ HttpLibreOffice(q)
        \/ HttpFindAndCopy(q)
        \/ HttpSend(q)
        \/ HttpCleanup(q)

SpecHttp == InitHttp /\ [][NextHttp]_vars

\* ------------------------------------------------ claims: HTTP requests

\* C28: for two /convert requests handled at the same time, under every
\* interleaving the uploaded file of a request exists, with the content that
\* request uploaded, while its conversion is to read it, and a CSV response
\* is the conversion of that request's own upload.
C28_ConcurrentRequestsIsolated ==
    \A q \in DOMAIN hpc :
        /\ hpc[q] \in {"convert", "libreoffice"} =>
              /\ Exists(fs, HttpTempDir, InputName(q))
              /\ fs[HttpTempDir][InputName(q)] = Workbook(q)
        /\ (responses[q] # Nil /\ responses[q][1].kind = "csv") =>
              responses[q][1].body = Ptr(CSVOf(q))

====
